---- MODULE Spec2Model ----
(***************************************************************************)
(* Model of denorm/fields.py: the three denormalized field wrappers        *)
(* (denormalized(...) / DenormDBField, CountField, CacheKeyField), their   *)
(* attachment to a model class and their pre_save steps inside a save.     *)
(*                                                                         *)
(* Run time (Spec): one row of one model that carries a computed field, a  *)
(* count field and a cache-key field, one in-memory instance of that row,  *)
(* a save of the instance taken one field's pre_save at a time, and the    *)
(* other writers of the row (the trigger mechanism, a delete).             *)
(* Class-definition time (SpecDef): fields are attached to model classes   *)
(* and the classes become fully defined.                                   *)
(* Dependency declaration (SpecDep): depend_on_related is called on the    *)
(* cache-key field before and after the field is attached.                 *)
(***************************************************************************)
EXTENDS Integers, Sequences, FiniteSets, TLC

\* ------------------------------------------------------------- bounds
MaxCount == 1      \* counts range over 0..MaxCount
MaxToken == 1      \* cache-key tokens range over 0..MaxToken
MaxRelated == 1    \* the data the compute function reads ranges over 0..MaxRelated
NumDenorm == 2     \* number of denormalized(...) fields that exist
MaxCalls == 2      \* number of depend_on_related calls

None == 0 - 1      \* Python's None where a number is expected
NoneS == "None"    \* Python's None where a name is expected

Counts == 0..MaxCount
Tokens == 0..MaxToken
Relateds == 0..MaxRelated

\* The field wrapper objects that exist.
DenormFields == {<<"DenormDBField", i>> : i \in 1..NumDenorm}
TheCountField == <<"CountField", 1>>
TheCacheKeyField == <<"CacheKeyField", 1>>
Fields == DenormFields \cup {TheCountField, TheCacheKeyField}

Classes == <<"A", "B">>                     \* model classes, in definition order
\* The attribute names a field can be attached under.
Names(f) ==
    IF f \in DenormFields THEN {"computed", "total"}
    ELSE IF f = TheCountField THEN {"count"}
    ELSE {"cachekey", "key"}
DepArgs == {"p", "q"}                       \* arguments of a dependency declaration

VARIABLES
    row,        \* the persisted row: state and the three stored columns
    related,    \* persisted data of other rows that the compute function reads
    inst,       \* the in-memory model instance
    pc,         \* position of the save in progress
    add,        \* the `add` flag the save passes to every pre_save
    ret,        \* the values the pre_save calls returned, to be written
    outcome,    \* how the last save ended
    h,          \* history of the trigger's writes, for stating the claims
    settings,   \* settings.DENORM_BULK_UNSAFE_TRIGGERS: "absent", "false", "true"
    wrapper,    \* DenormDBField.func (with func.depend) and .skip of each field
    denorm,     \* self.denorm of each field wrapper
    dependencies, \* CacheKeyField.dependencies
    receivers,  \* the signal registry: the receivers of each signal
    defining,   \* the model class whose body is being executed
    prepared,   \* the model classes that are fully defined
    setups,     \* the denorm.setup calls made: <<field, class>>
    calls,      \* history: the arguments of each depend_on_related call
    books       \* number of rows related to the row through the counted manager

defVars == <<settings, wrapper, denorm, dependencies, receivers, defining, prepared,
             setups, calls>>
rtVars == <<row, related, inst, pc, add, ret, outcome, h>>
vars == <<row, related, inst, pc, add, ret, outcome, h, settings, wrapper, denorm,
          dependencies, receivers, defining, prepared, setups, calls, books>>

\* ------------------------------------------------- class-definition time
\* A descriptor that does not exist yet (self.denorm is not set).
NoFunc == [name |-> NoneS, depend |-> <<>>]
NoDenorm == [class |-> NoneS, skip |-> NoneS, func |-> NoFunc, depend |-> <<>>,
             model |-> NoneS, fieldname |-> NoneS]

\* The compute functions a denormalized(...) field can be given: a callable
\* that carries no `depend` attribute, or one made of (dcls, dargs, dkwargs).
NoDepend == <<>>
TwoDepend == <<[dcls |-> "DependOnRelated", dargs |-> "p"],
               [dcls |-> "DependOnModel", dargs |-> "q"]>>

\* DenormDBField.__init__ : self.func, self.skip
DenormDBField_init(func, skip) == [func |-> func, skip |-> skip]

\* CountField.__init__ : the descriptor exists from construction on.
CountField_init(skip) ==
    [class |-> "CountDenorm", skip |-> skip, func |-> NoFunc, depend |-> <<>>,
     model |-> NoneS, fieldname |-> NoneS]

\* dcls(*dargs, **dkwargs): a dependency declaration object.
Declaration(dcls, dargs) == [type |-> dcls, args |-> dargs, fieldname |-> NoneS]

\* denorms.BaseCacheKeyDenorm(depend_on_related=...): keeps the list it is
\* given and computes a fresh token.
BaseCacheKeyDenorm(depend_on_related) ==
    [class |-> "BaseCacheKeyDenorm", skip |-> NoneS,
     func |-> [name |-> "random", depend |-> <<>>],
     depend |-> depend_on_related, model |-> NoneS, fieldname |-> NoneS]

\* Receivers: the bound method denorm.setup of a field's descriptor, and the
\* module-level functions of denorms.
TheModule == <<"denorms", 0>>
SetupOf(f) == [fn |-> "setup", self |-> f]

NoReceivers == [class_prepared |-> <<>>, pre_save |-> <<>>, post_save |-> <<>>]

\* Signal.connect(receiver, sender): a receiver is registered once for a sender.
connect(rs, signal, receiver, sender) ==
    LET entry == [receiver |-> receiver, sender |-> sender]
    IN  IF \E i \in 1..Len(rs[signal]) : rs[signal][i] = entry
        THEN rs
        ELSE [rs EXCEPT ![signal] = Append(@, entry)]

\* The receiver a field connects for the many-to-many signals: the handler fn
\* of module denorms, the same object whichever field connects it.
M2MReceiver_perField(f, fn) == [fn |-> fn, self |-> f]
M2MReceiver(f, fn) == [fn |-> fn, self |-> TheModule]

\* The three contribute_to_class methods, on w = [denorm, dependencies, receivers].
\* (mutant) with bulk-unsafe triggers the descriptor is built without skip
DenormDBField_contribute_to_class_noSkip(w, f, cls, name) ==
    LET fdep == wrapper[f].func.depend
        d == [class |-> IF settings = "true" THEN "BaseCallbackDenorm"
                        ELSE "CallbackDenorm",
              skip |-> IF settings = "true" THEN NoneS ELSE wrapper[f].skip,
              func |-> wrapper[f].func,
              depend |-> [i \in 1..Len(fdep) |-> Declaration(fdep[i].dcls, fdep[i].dargs)],
              model |-> cls,
              fieldname |-> name]
        r1 == connect(w.receivers, "class_prepared", SetupOf(f), cls)
        r2 == connect(r1, "pre_save", M2MReceiver(f, "many_to_many_pre_save"), cls)
        r3 == connect(r2, "post_save", M2MReceiver(f, "many_to_many_post_save"), cls)
    IN  [w EXCEPT !.denorm[f] = d, !.receivers = r3]

DenormDBField_contribute_to_class(w, f, cls, name) ==
    LET fdep == wrapper[f].func.depend
        d == [class |-> IF settings = "true" THEN "BaseCallbackDenorm"
                        ELSE "CallbackDenorm",
              skip |-> wrapper[f].skip,
              func |-> wrapper[f].func,
              depend |-> [i \in 1..Len(fdep) |-> Declaration(fdep[i].dcls, fdep[i].dargs)],
              model |-> cls,
              fieldname |-> name]
        r1 == connect(w.receivers, "class_prepared", SetupOf(f), cls)
        r2 == connect(r1, "pre_save", M2MReceiver(f, "many_to_many_pre_save"), cls)
        r3 == connect(r2, "post_save", M2MReceiver(f, "many_to_many_post_save"), cls)
    IN  [w EXCEPT !.denorm[f] = d, !.receivers = r3]

CountField_contribute_to_class(w, f, cls, name) ==
    [w EXCEPT !.denorm[f].model = cls,
              !.denorm[f].fieldname = name,
              !.receivers = connect(w.receivers, "class_prepared", SetupOf(f), NoneS)]

CacheKeyField_contribute_to_class(w, f, cls, name) ==
    LET deps == [i \in 1..Len(w.dependencies) |->
                    [w.dependencies[i] EXCEPT !.fieldname = name]]
        d == [BaseCacheKeyDenorm(deps) EXCEPT !.model = cls, !.fieldname = name]
    IN  [w EXCEPT !.dependencies = deps,
                  !.denorm[f] = d,
                  !.receivers = connect(w.receivers, "class_prepared", SetupOf(f), NoneS)]

contribute_to_class(w, f, cls, name) ==
    IF f \in DenormFields THEN DenormDBField_contribute_to_class(w, f, cls, name)
    ELSE IF f = TheCountField THEN CountField_contribute_to_class(w, f, cls, name)
    ELSE CacheKeyField_contribute_to_class(w, f, cls, name)

\* (mutant) the declaration replaces the list instead of being appended to it
depend_on_related_replace(w, f, args) ==
    LET deps == <<Declaration("CacheKeyDependOnRelated", args)>>
    IN  [w EXCEPT !.dependencies = deps,
                  !.denorm[f].depend = IF w.denorm[f].class = NoneS THEN @ ELSE deps]

\* CacheKeyField.depend_on_related: the list the descriptor was given is this
\* same list object, so an attached field's descriptor sees the append.
depend_on_related(w, f, args) ==
    LET deps == Append(w.dependencies, Declaration("CacheKeyDependOnRelated", args))
    IN  [w EXCEPT !.dependencies = deps,
                  !.denorm[f].depend = IF w.denorm[f].class = NoneS THEN @ ELSE deps]

World == [denorm |-> denorm, dependencies |-> dependencies, receivers |-> receivers]

SetWorld(w) ==
    /\ denorm' = w.denorm
    /\ dependencies' = w.dependencies
    /\ receivers' = w.receivers

Attached(f) == denorm[f].model # NoneS
NamesIn(cls) == {denorm[f].fieldname : f \in {g \in Fields : denorm[g].model = cls}}

\* The body of `class cls(models.Model)` starts executing.
BeginClass(cls) ==
    /\ defining = NoneS
    /\ cls \notin prepared
    /\ \A i \in 1..Len(Classes) :
          Classes[i] = cls => \A j \in 1..(i - 1) : Classes[j] \in prepared
    /\ defining' = cls
    /\ UNCHANGED <<settings, wrapper, denorm, dependencies, receivers, prepared, setups,
                   calls, rtVars, books>>

\* The class being defined gets field f as attribute name.
ContributeToClass(f, name) ==
    /\ defining # NoneS
    /\ ~Attached(f)
    /\ name \notin NamesIn(defining)
    /\ SetWorld(contribute_to_class(World, f, defining, name))
    /\ UNCHANGED <<settings, wrapper, defining, prepared, setups, calls, rtVars, books>>

\* (mutant) a receiver is disconnected once class_prepared has called it
ClassPrepared_disconnect ==
    /\ defining # NoneS
    /\ setups' = setups \cup
          {<<receivers.class_prepared[i].receiver.self, defining>> :
              i \in {j \in 1..Len(receivers.class_prepared) :
                        receivers.class_prepared[j].sender \in {defining, NoneS}}}
    /\ receivers' = [receivers EXCEPT !.class_prepared =
                        SelectSeq(@, LAMBDA e : e.sender \notin {defining, NoneS})]
    /\ prepared' = prepared \cup {defining}
    /\ defining' = NoneS
    /\ UNCHANGED <<settings, wrapper, denorm, dependencies, calls, rtVars, books>>

\* The class is fully defined: class_prepared is sent with it as sender, and
\* reaches the receivers connected for that sender or for any sender.
ClassPrepared ==
    /\ defining # NoneS
    /\ setups' = setups \cup
          {<<receivers.class_prepared[i].receiver.self, defining>> :
              i \in {j \in 1..Len(receivers.class_prepared) :
                        receivers.class_prepared[j].sender \in {defining, NoneS}}}
    /\ prepared' = prepared \cup {defining}
    /\ defining' = NoneS
    /\ UNCHANGED <<settings, wrapper, denorm, dependencies, receivers, calls, rtVars, books>>

\* depend_on_related(args) is called on the cache-key field.
DependOnRelated(args) ==
    /\ Len(calls) < MaxCalls
    /\ SetWorld(depend_on_related(World, TheCacheKeyField, args))
    /\ calls' = Append(calls, args)
    /\ UNCHANGED <<settings, wrapper, defining, prepared, setups, rtVars, books>>

\* ------------------------------------------------------------- run time
InSave == {"computed", "count", "cachekey", "write"}

\* A model instance as constructed: no primary key, the computed column NULL
\* (null=True), the count and the cache key at their default 0.
NewInstance == [pk |-> None, computed |-> None, count |-> 0, cachekey |-> 0]

\* The row before it is inserted and after it is deleted.
NoRow(state) == [state |-> state, computed |-> None, count |-> 0, cachekey |-> 0]

NoRet == [computed |-> None, count |-> None, cachekey |-> None]

\* History of a save, kept until save() has returned (see the variable h):
\*   pre       the instance as it was when save() was called
\*   relAt     the related data at the time the compute function was called
\*   startTok  the persisted token when save() was called
\*   gone      the field whose read-back found no row
\*   raceC/T   the trigger wrote the count / the token while the save ran
\*   wTc/wTt   the count / the token the trigger had last written, after the
\*             instance was loaded or last saved, when the save wrote
\*   wrote     the save has executed its INSERT or UPDATE
\* and, kept throughout, tc/tt: the count / token the trigger last wrote since
\* the instance was loaded or a save of it wrote the row.
NoSave == [pre |-> NewInstance, relAt |-> None, startTok |-> None, gone |-> NoneS,
           raceC |-> FALSE, raceT |-> FALSE, wTc |-> None, wTt |-> None,
           wrote |-> FALSE]

\* A compute function, with the `depend` list it carries.
TheFunc(depend) == [name |-> "func", depend |-> depend]

\* The compute function given to denormalized(): it reads persisted data of
\* related rows; here it raises when there is none and else returns 2n+1.
funcRaises(rel) == rel = 0
func(rel) == 2 * rel + 1

\* The values an instance attribute can be assigned by the caller.
AttrValues(name) ==
    IF name = "computed" THEN {None, 0} \cup {func(r) : r \in 1..MaxRelated}
    ELSE IF name = "count" THEN Counts
    ELSE Tokens

\* What a pre_save call does: it raises, or it returns value and leaves instance.
Result(raised, value, instance) ==
    [raised |-> raised, value |-> value, instance |-> instance]

\* The model class whose row and instance the run time follows, and its fields.
TheModel == "A"
ComputedF == <<"DenormDBField", 1>>

\* self.attname of an attached field: the name it was attached under.
attname(self) == denorm[self].fieldname

\* (mutant) the lookup yields the column default when the row is gone
values_list_default(model, pk, name) ==
    IF model = TheModel /\ pk # None /\ row.state = "present"
    THEN <<row[name]>>
    ELSE <<0>>

\* model.objects.filter(pk=pk).values_list(name, flat=True)
values_list(model, pk, name) ==
    IF model = TheModel /\ pk # None /\ row.state = "present"
    THEN <<row[name]>>
    ELSE <<>>

\* (mutant) the value is computed on INSERT only; an UPDATE writes the attribute
DenormDBField_pre_save_addOnly(self, model_instance, addFlag) ==
    IF ~addFlag
    THEN Result(FALSE, model_instance[attname(self)], model_instance)
    ELSE IF denorm[self].func.name # "func" \/ funcRaises(related)
    THEN Result(TRUE, None, model_instance)
    ELSE LET value == func(related)
         IN  Result(FALSE, value, [model_instance EXCEPT ![attname(self)] = value])

\* (mutant) an exception of the compute function is swallowed and NULL written
DenormDBField_pre_save_swallow(self, model_instance, addFlag) ==
    IF denorm[self].func.name # "func" \/ funcRaises(related)
    THEN Result(FALSE, None, [model_instance EXCEPT ![attname(self)] = None])
    ELSE LET value == func(related)
         IN  Result(FALSE, value, [model_instance EXCEPT ![attname(self)] = value])

DenormDBField_pre_save(self, model_instance, addFlag) ==
    IF denorm[self].func.name # "func" \/ funcRaises(related)
    THEN Result(TRUE, None, model_instance)
    ELSE LET value == func(related)
         IN  Result(FALSE, value, [model_instance EXCEPT ![attname(self)] = value])

\* (mutant) an INSERT writes the count the instance carries
CountField_pre_save_addKeeps(self, model_instance, addFlag) ==
    IF addFlag
    THEN Result(FALSE, model_instance[attname(self)], model_instance)
    ELSE LET qs == values_list(denorm[self].model, model_instance.pk, attname(self))
         IN  IF qs = <<>>
             THEN Result(TRUE, None, model_instance)
             ELSE Result(FALSE, qs[1], [model_instance EXCEPT ![attname(self)] = qs[1]])

\* (mutant) an UPDATE returns the count read back and leaves the instance alone
CountField_pre_save_noSetattr(self, model_instance, addFlag) ==
    IF addFlag
    THEN Result(FALSE, 0, [model_instance EXCEPT ![attname(self)] = 0])
    ELSE LET qs == values_list(denorm[self].model, model_instance.pk, attname(self))
         IN  IF qs = <<>>
             THEN Result(TRUE, None, model_instance)
             ELSE Result(FALSE, qs[1], model_instance)

\* (mutant) every save writes count 0, an UPDATE as an INSERT does
CountField_pre_save_alwaysZero(self, model_instance, addFlag) ==
    Result(FALSE, 0, [model_instance EXCEPT ![attname(self)] = 0])

\* (mutant) an UPDATE writes the count the instance carries, without read-back
CountField_pre_save_noReadBack(self, model_instance, addFlag) ==
    IF addFlag
    THEN Result(FALSE, 0, [model_instance EXCEPT ![attname(self)] = 0])
    ELSE Result(FALSE, model_instance[attname(self)], model_instance)

CountField_pre_save(self, model_instance, addFlag) ==
    IF addFlag
    THEN Result(FALSE, 0, [model_instance EXCEPT ![attname(self)] = 0])
    ELSE LET qs == values_list(denorm[self].model, model_instance.pk, attname(self))
         IN  IF qs = <<>>
             THEN Result(TRUE, None, model_instance)     \* [0] raises IndexError
             ELSE Result(FALSE, qs[1], [model_instance EXCEPT ![attname(self)] = qs[1]])

\* (mutant) every save draws a fresh token, UPDATE included
CacheKeyField_pre_save_recompute(self, model_instance, addFlag, fresh) ==
    Result(FALSE, fresh, [model_instance EXCEPT ![attname(self)] = fresh])

\* fresh is the token self.denorm.func draws when it is called.
CacheKeyField_pre_save(self, model_instance, addFlag, fresh) ==
    IF addFlag
    THEN Result(FALSE, fresh, [model_instance EXCEPT ![attname(self)] = fresh])
    ELSE LET qs == values_list(denorm[self].model, model_instance.pk, attname(self))
         IN  IF qs = <<>>
             THEN Result(TRUE, None, model_instance)     \* [0] raises IndexError
             ELSE Result(FALSE, qs[1], [model_instance EXCEPT ![attname(self)] = qs[1]])

\* The caller assigns an attribute of the instance between saves.
Assign(name, v) ==
    /\ pc = "idle"
    /\ inst[name] # v
    /\ inst' = [inst EXCEPT ![name] = v]
    /\ UNCHANGED <<row, related, pc, add, ret, outcome, h, defVars, books>>

\* The caller loads the instance from the persisted row.
Load ==
    /\ pc = "idle"
    /\ row.state = "present"
    /\ inst' = [pk |-> 1, computed |-> row.computed, count |-> row.count,
                cachekey |-> row.cachekey]
    /\ h' = [h EXCEPT !.tc = None, !.tt = None]
    /\ UNCHANGED <<row, related, pc, add, ret, outcome, defVars, books>>

\* save() starts: an instance without a primary key is an INSERT (add).
SaveBegin ==
    /\ pc = "idle"
    /\ pc' = "computed"
    /\ add' = (inst.pk = None)
    /\ outcome' = "none"
    /\ h' = [h EXCEPT !.pre = inst,
                      !.startTok = IF row.state = "present" THEN row.cachekey ELSE None]
    /\ UNCHANGED <<row, related, inst, ret, defVars, books>>

\* A pre_save call ends: on an exception the save ends with it, else the
\* instance is as the call left it and the returned value is kept for the write.
AfterPreSave(r, name, next, kind) ==
    IF r.raised
    THEN /\ pc' = "done"
         /\ outcome' = kind
         /\ UNCHANGED <<inst, ret>>
    ELSE /\ pc' = next
         /\ inst' = r.instance
         /\ ret' = [ret EXCEPT ![name] = r.value]
         /\ UNCHANGED outcome

SaveComputed ==
    /\ pc = "computed"
    /\ AfterPreSave(DenormDBField_pre_save(ComputedF, inst, add), attname(ComputedF),
                    "count", "func_raised")
    /\ h' = [h EXCEPT !.relAt = related]
    /\ UNCHANGED <<row, related, add, defVars, books>>

SaveCount ==
    /\ pc = "count"
    /\ AfterPreSave(CountField_pre_save(TheCountField, inst, add), attname(TheCountField),
                    "cachekey", "IndexError")
    /\ h' = [h EXCEPT !.gone = IF ~add /\ row.state # "present" THEN pc ELSE @]
    /\ UNCHANGED <<row, related, add, defVars, books>>

SaveCacheKey ==
    /\ pc = "cachekey"
    /\ \E fresh \in Tokens :
          AfterPreSave(CacheKeyField_pre_save(TheCacheKeyField, inst, add, fresh),
                       attname(TheCacheKeyField), "write", "IndexError")
    /\ h' = [h EXCEPT !.gone = IF ~add /\ row.state # "present" THEN pc ELSE @]
    /\ UNCHANGED <<row, related, add, defVars, books>>

\* The save writes the returned values: an INSERT creates the row and gives
\* the instance its primary key, an UPDATE writes the row of that primary key
\* (no row when it was deleted in between).
SaveWrite ==
    /\ pc = "write"
    /\ IF add
       THEN /\ row' = [state |-> "present", computed |-> ret.computed,
                       count |-> ret.count, cachekey |-> ret.cachekey]
            /\ inst' = [inst EXCEPT !.pk = 1]
       ELSE /\ row' = IF row.state = "present"
                      THEN [row EXCEPT !.computed = ret.computed, !.count = ret.count,
                                       !.cachekey = ret.cachekey]
                      ELSE row
            /\ UNCHANGED inst
    /\ pc' = "done"
    /\ outcome' = "ok"
    /\ h' = [h EXCEPT !.wTc = h.tc, !.wTt = h.tt, !.tc = None, !.tt = None,
                      !.wrote = TRUE]
    /\ UNCHANGED <<related, add, ret, defVars, books>>

\* save() has returned or raised; the caller goes on.
Return ==
    /\ pc = "done"
    /\ pc' = "idle"
    /\ outcome' = "none"
    /\ ret' = NoRet
    /\ add' = FALSE
    /\ h' = [tc |-> h.tc, tt |-> h.tt] @@ NoSave
    /\ UNCHANGED <<row, related, inst, defVars, books>>

\* The other writers below act at any point of a save. The state in which the
\* caller looks at a finished save (pc = "done") is a point in time: what they
\* do after the save has ended they do once the caller has gone on (Return).
Quiet == pc = "done"

\* The trigger mechanism writes a count to the persisted row.
TriggerCount(n) ==
    /\ ~Quiet
    /\ row.state = "present"
    /\ row' = [row EXCEPT !.count = n]
    /\ h' = [h EXCEPT !.tc = n, !.raceC = h.raceC \/ pc \in InSave]
    /\ UNCHANGED <<related, inst, pc, add, ret, outcome, defVars, books>>

\* A dependency fires: the trigger mechanism writes a fresh token to the row.
TriggerToken(t) ==
    /\ ~Quiet
    /\ row.state = "present"
    /\ row' = [row EXCEPT !.cachekey = t]
    /\ h' = [h EXCEPT !.tt = t, !.raceT = h.raceT \/ pc \in InSave]
    /\ UNCHANGED <<related, inst, pc, add, ret, outcome, defVars, books>>

\* Rows the compute function reads are changed by somebody.
ChangeRelated(r) ==
    /\ ~Quiet
    /\ related # r
    /\ related' = r
    /\ UNCHANGED <<row, inst, pc, add, ret, outcome, h, defVars, books>>

\* The row is deleted by somebody else.
DeleteRow ==
    /\ ~Quiet
    /\ row.state = "present"
    /\ row' = NoRow("deleted")
    /\ h' = [h EXCEPT !.tc = None, !.tt = None]
    /\ UNCHANGED <<related, inst, pc, add, ret, outcome, defVars, books>>

\* (mutant) a trigger on the owning table draws a new token on any update
own_table_triggers_token(r) == [r EXCEPT !.cachekey = (@ + 1) % (MaxToken + 1)]

\* What the trigger mechanism does to a row of the owning table that was
\* written outside the save path: the cache-key field cannot detect such an
\* update, the row stays as written.
own_table_triggers(r) == r

\* The columns a bulk update writes: the others than the cache key.
BulkColumns == {"computed", "count"}

\* QuerySet.update(name=v) on the owning model: the column is written without
\* any pre_save call.
BulkUpdate(name, v) ==
    /\ ~Quiet
    /\ row.state = "present"
    /\ row[name] # v
    /\ row' = own_table_triggers([row EXCEPT ![name] = v])
    /\ UNCHANGED <<related, inst, pc, add, ret, outcome, h, defVars, books>>

\* A related row is added: the trigger mechanism increments the stored count.
AddRelated ==
    /\ pc = "idle"
    /\ row.state = "present"
    /\ books < MaxCount
    /\ books' = books + 1
    /\ row' = [row EXCEPT !.count = @ + 1]
    /\ h' = [h EXCEPT !.tc = row.count + 1]
    /\ UNCHANGED <<related, inst, pc, add, ret, outcome, defVars>>

\* A related row is removed: the trigger mechanism decrements the stored count.
RemoveRelated ==
    /\ pc = "idle"
    /\ row.state = "present"
    /\ books > 0
    /\ books' = books - 1
    /\ row' = [row EXCEPT !.count = @ - 1]
    /\ h' = [h EXCEPT !.tc = row.count - 1]
    /\ UNCHANGED <<related, inst, pc, add, ret, outcome, defVars>>

\* No field is attached to any class.
NoWorld(countSkip) ==
    [denorm |-> [f \in Fields |->
                    IF f = TheCountField THEN CountField_init(countSkip) ELSE NoDenorm],
     dependencies |-> <<>>,
     receivers |-> NoReceivers]

\* The state after
\*   class A(models.Model):
\*       computed = denormalized(...)(func); count = CountField(...)
\*       cachekey = CacheKeyField()
ModelA ==
    LET w1 == contribute_to_class(NoWorld(NoneS), ComputedF, TheModel, "computed")
        w2 == contribute_to_class(w1, TheCountField, TheModel, "count")
    IN  contribute_to_class(w2, TheCacheKeyField, TheModel, "cachekey")

Init ==
    /\ row = NoRow("absent")
    /\ related \in Relateds
    /\ inst = NewInstance
    /\ pc = "idle"
    /\ add = FALSE
    /\ ret = NoRet
    /\ outcome = "none"
    /\ h = [tc |-> None, tt |-> None] @@ NoSave
    /\ settings = "absent"
    /\ wrapper = [f \in DenormFields |-> DenormDBField_init(TheFunc(NoDepend), NoneS)]
    /\ denorm = ModelA.denorm
    /\ dependencies = ModelA.dependencies
    /\ receivers = ModelA.receivers
    /\ defining = NoneS
    /\ prepared = {TheModel}
    /\ setups = {<<f, TheModel>> : f \in {ComputedF, TheCountField, TheCacheKeyField}}
    /\ calls = <<>>
    /\ books = 0

Next ==
    \/ \E name \in {"computed", "count", "cachekey"} :
          \E v \in AttrValues(name) : Assign(name, v)
    \/ Load
    \/ SaveBegin
    \/ SaveComputed
    \/ SaveCount
    \/ SaveCacheKey
    \/ SaveWrite
    \/ Return
    \/ \E n \in Counts : TriggerCount(n)
    \/ \E t \in Tokens : TriggerToken(t)
    \/ \E r \in Relateds : ChangeRelated(r)
    \/ DeleteRow

Spec == Init /\ [][Next]_vars

\* Saves of the instance, dependency triggers and bulk updates of the model.
NextBulk ==
    \/ Load
    \/ SaveBegin
    \/ SaveComputed
    \/ SaveCount
    \/ SaveCacheKey
    \/ SaveWrite
    \/ Return
    \/ \E t \in Tokens : TriggerToken(t)
    \/ \E name \in BulkColumns : \E v \in AttrValues(name) : BulkUpdate(name, v)

SpecBulk == Init /\ [][NextBulk]_vars

\* One operation at a time: the owner is inserted and saved, related rows are
\* added and removed between the saves.
NextSeq ==
    \/ \E v \in AttrValues("computed") : Assign("computed", v)
    \/ SaveBegin
    \/ SaveComputed
    \/ SaveCount
    \/ SaveCacheKey
    \/ SaveWrite
    \/ Return
    \/ AddRelated
    \/ RemoveRelated

SpecSeq == Init /\ [][NextSeq]_vars

\* Instances of A are saved while a further class with computed fields is
\* defined (a module imported later).
NextMix ==
    \/ \E name \in {"computed", "count", "cachekey"} :
          \E v \in AttrValues(name) : Assign(name, v)
    \/ SaveBegin
    \/ SaveComputed
    \/ SaveCount
    \/ SaveCacheKey
    \/ SaveWrite
    \/ Return
    \/ \E i \in 1..Len(Classes) : BeginClass(Classes[i])
    \/ \E f \in DenormFields : \E name \in Names(f) : ContributeToClass(f, name)
    \/ ClassPrepared

SpecMix == Init /\ [][NextMix]_vars

\* Class-definition time: nothing is attached, no row exists, nothing is saved.
InitDef ==
    /\ row = NoRow("absent")
    /\ related = 0
    /\ inst = NewInstance
    /\ pc = "idle"
    /\ add = FALSE
    /\ ret = NoRet
    /\ outcome = "none"
    /\ h = [tc |-> None, tt |-> None] @@ NoSave
    /\ settings \in {"absent", "false", "true"}
    /\ wrapper \in [DenormFields -> {DenormDBField_init(TheFunc(NoDepend), NoneS),
                                     DenormDBField_init(TheFunc(TwoDepend), "skip")}]
    /\ denorm = NoWorld(NoneS).denorm
    /\ dependencies = NoWorld(NoneS).dependencies
    /\ receivers = NoWorld(NoneS).receivers
    /\ defining = NoneS
    /\ prepared = {}
    /\ setups = {}
    /\ calls = <<>>
    /\ books = 0

NextDef ==
    \/ \E i \in 1..Len(Classes) : BeginClass(Classes[i])
    \/ \E f \in Fields : \E name \in Names(f) : ContributeToClass(f, name)
    \/ ClassPrepared

SpecDef == InitDef /\ [][NextDef]_vars

\* The cache-key field: dependencies are declared on it, before and after it
\* is attached, while it and the count field are attached to classes.
InitDep ==
    /\ InitDef
    /\ settings = "absent"
    /\ wrapper = [f \in DenormFields |-> DenormDBField_init(TheFunc(NoDepend), NoneS)]

NextDep ==
    \/ \E i \in 1..Len(Classes) : BeginClass(Classes[i])
    \/ \E f \in {TheCacheKeyField, TheCountField} :
          \E name \in Names(f) : ContributeToClass(f, name)
    \/ ClassPrepared
    \/ \E args \in DepArgs : DependOnRelated(args)

SpecDep == InitDep /\ [][NextDep]_vars

\* ------------------------------------------------------------- claims
SaveOk == pc = "done" /\ outcome = "ok"
RowThere == row.state = "present"

\* C1: a computed field's save stores func(instance) as evaluated in that
\* save's pre_save, on INSERT and UPDATE and whatever the attribute held
\* before, and leaves that value on the instance.
C1_ComputedStored ==
    SaveOk =>
        /\ inst.computed = func(h.relAt)
        /\ ret.computed = func(h.relAt)
        /\ RowThere => row.computed = func(h.relAt)

\* An UPDATE has stored the computed value over a different assigned value,
\* and the data the function reads has changed since the pre_save.
C1_Witness ==
    /\ SaveOk /\ ~add /\ RowThere
    /\ h.pre.computed \notin {None, func(h.relAt)}
    /\ row.computed = func(h.relAt)
    /\ related # h.relAt

\* C2 (as claimed): wherever the trigger's write of a count falls between the
\* load of the instance and the end of the save's write, the persisted count
\* after both is the count the trigger wrote.
C2_TriggerCountSurvives ==
    (SaveOk /\ ~add /\ RowThere /\ h.wTc # None /\ h.tc = None) => row.count = h.wTc

\* C3: a count field's INSERT stores 0 and sets the attribute to 0, whatever
\* count the instance carried (the row holds 0 until the trigger writes it).
C3_InsertStoresZero ==
    (pc = "done" /\ h.wrote /\ add) =>
        /\ ret.count = 0
        /\ inst.count = 0
        /\ (RowThere /\ h.tc = None) => row.count = 0

\* An INSERT of an instance that carried a non-zero count has stored 0.
C3_Witness ==
    SaveOk /\ h.wrote /\ add /\ RowThere /\ h.pre.count # 0 /\ row.count = 0 /\ inst.count = 0

\* C4: the trigger wrote count n after the instance was created or loaded,
\* then the stale instance was saved (UPDATE), no trigger write falling in
\* the save: the stored count and the attribute are both n.
C4_UpdateKeepsTriggerCount ==
    (SaveOk /\ ~add /\ RowThere /\ h.wTc # None /\ ~h.raceC /\ h.tc = None) =>
        (row.count = h.wTc /\ inst.count = h.wTc)

C4_Witness ==
    /\ SaveOk /\ ~add /\ RowThere /\ h.wTc # None /\ ~h.raceC /\ h.tc = None
    /\ h.wTc # h.pre.count
    /\ h.wTc # 0
    /\ row.count = h.wTc

\* C5 (as claimed): after a save, INSERT or UPDATE, the persisted token
\* differs from the token persisted before that save.
C5_TokenChangesOnSave ==
    (SaveOk /\ RowThere) => row.cachekey # h.startTok

C7_ComputeRaises ==
    (h.relAt # None /\ funcRaises(h.relAt)) =>
        /\ pc = "done" /\ outcome = "func_raised"
        /\ ~h.wrote /\ ret = NoRet
        /\ inst = h.pre

\* A save of an existing row has ended with the compute function's exception.
C7_Witness ==
    /\ pc = "done" /\ outcome = "func_raised" /\ ~add /\ RowThere
    /\ funcRaises(h.relAt)
    /\ inst.computed # None
    /\ row.computed # None

\* C8: an UPDATE whose row is gone when the count field or the cache-key
\* field reads it back ends with the error of that read-back; the save writes
\* nothing and that field's attribute is what it was before the save.
C8_RowGone ==
    h.gone # NoneS =>
        /\ pc = "done" /\ outcome = "IndexError"
        /\ ~h.wrote /\ ret[h.gone] = None
        /\ inst[h.gone] = h.pre[h.gone]

\* The read-back of the count field has failed on a deleted row, the
\* instance carrying a non-zero count.
C8_Witness ==
    /\ pc = "done" /\ outcome = "IndexError" /\ row.state = "deleted"
    /\ h.gone = "count"
    /\ inst.count # 0

\* The read-back of the cache-key field has failed, the row deleted after
\* the count field read it.
C8_WitnessCacheKey ==
    /\ pc = "done" /\ outcome = "IndexError" /\ row.state = "deleted"
    /\ h.gone = "cachekey"
    /\ ret.count # None
    /\ inst.cachekey # 0

\* C9: a class with denormalized fields attached, however many, has exactly
\* one many-to-many pre_save and one post_save registration.
Registered(signal, cls) ==
    {i \in 1..Len(receivers[signal]) : receivers[signal][i].sender = cls}
DenormFieldsOf(cls) == {f \in DenormFields : denorm[f].model = cls}

C9_OneRegistration ==
    \A i \in 1..Len(Classes) :
        LET n == IF DenormFieldsOf(Classes[i]) = {} THEN 0 ELSE 1
        IN  /\ Cardinality(Registered("pre_save", Classes[i])) = n
            /\ Cardinality(Registered("post_save", Classes[i])) = n
            /\ \A j \in Registered("pre_save", Classes[i]) :
                  receivers.pre_save[j].receiver.fn = "many_to_many_pre_save"
            /\ \A j \in Registered("post_save", Classes[i]) :
                  receivers.post_save[j].receiver.fn = "many_to_many_post_save"

\* Every denormalized field is attached to one class, two at least.
C9_Witness ==
    \E i \in 1..Len(Classes) :
        /\ DenormFieldsOf(Classes[i]) = DenormFields
        /\ Cardinality(DenormFields) >= 2
        /\ Cardinality(Registered("pre_save", Classes[i])) = 1

\* C10: when the cache-key field is attached after k depend_on_related calls,
\* the descriptor's dependency list holds the k declarations in call order.
C10_DependPerCall ==
    [][(denorm[TheCacheKeyField].model = NoneS /\ denorm'[TheCacheKeyField].model # NoneS) =>
          (/\ Len(denorm'[TheCacheKeyField].depend) = Len(calls)
           /\ \A i \in 1..Len(calls) :
                 /\ denorm'[TheCacheKeyField].depend[i].args = calls[i]
                 /\ denorm'[TheCacheKeyField].depend[i].type = "CacheKeyDependOnRelated")]_vars

\* The field was attached after two calls with different arguments.
C10_Witness ==
    /\ denorm[TheCacheKeyField].model # NoneS
    /\ Len(denorm[TheCacheKeyField].depend) >= 2
    /\ \A i \in 1..Len(denorm[TheCacheKeyField].depend) :
          denorm[TheCacheKeyField].depend[i].fieldname # NoneS
    /\ denorm[TheCacheKeyField].depend[1].args # denorm[TheCacheKeyField].depend[2].args

C12_CountIsRelatedRows ==
    (pc = "idle" /\ RowThere) => row.count = books

\* The owner was saved after a related row was added: the instance holds the
\* count the save read back.
C12_Witness ==
    /\ pc = "idle" /\ RowThere
    /\ books >= 1
    /\ row.count = books
    /\ inst.count = books

\* C13: for every field kind the descriptor's setup is run by class_prepared
\* of the field's own class, and by class_prepared of no other class.
C13_SetupByOwnClassOnly ==
    /\ \A f \in Fields :
          (Attached(f) /\ denorm[f].model \in prepared) => <<f, denorm[f].model>> \in setups
    /\ \A s \in setups : denorm[s[1]].model = s[2]

\* C14: once a field is attached and its descriptor's setup has run, no step
\* changes the descriptor (func, depend, model, fieldname, skip).
SetUp(f) == Attached(f) /\ \E s \in setups : s[1] = f

C14_DescriptorFrozen ==
    [][\A f \in Fields : SetUp(f) => denorm'[f] = denorm[f]]_vars

\* C15: whatever the order of depend_on_related calls and attachment, every
\* declaration in the attached cache-key field's dependency list carries the
\* attribute name the field was attached under.
C15_DeclarationsCarryName ==
    Attached(TheCacheKeyField) =>
        /\ \A i \in 1..Len(dependencies) :
              dependencies[i].fieldname = denorm[TheCacheKeyField].fieldname
        /\ \A i \in 1..Len(denorm[TheCacheKeyField].depend) :
              denorm[TheCacheKeyField].depend[i].fieldname = denorm[TheCacheKeyField].fieldname

\* C16: for the three field kinds, a pre_save that ended without an exception
\* has set the instance attribute to the value it returned for the write; so
\* after a successful save during which no trigger wrote, the instance
\* attributes equal the persisted values.
PreSaveDone(name) ==
    \/ pc = "write"
    \/ pc = "done" /\ outcome = "ok"
    \/ name = "computed" /\ pc \in {"count", "cachekey"}
    \/ name = "count" /\ pc = "cachekey"

C16_InstanceHoldsWritten ==
    /\ \A name \in {"computed", "count", "cachekey"} :
          PreSaveDone(name) => inst[name] = ret[name]
    /\ (SaveOk /\ RowThere /\ ~h.raceC /\ ~h.raceT) =>
          \A name \in {"computed", "count", "cachekey"} : inst[name] = row[name]

\* An UPDATE has ended in which every pre_save changed the instance attribute.
C16_Witness ==
    /\ SaveOk /\ RowThere /\ ~add /\ ~h.raceC /\ ~h.raceT
    /\ \A name \in {"computed", "count", "cachekey"} :
          h.pre[name] # inst[name] /\ inst[name] = row[name]

C18_DescriptorBound ==
    [][\A f \in DenormFields : \A name \in Names(f) :
          ContributeToClass(f, name) =>
              LET d == denorm'[f]
                  fdep == wrapper[f].func.depend
              IN  /\ d.func = wrapper[f].func
                  /\ Len(d.depend) = Len(fdep)
                  /\ \A i \in 1..Len(fdep) :
                        d.depend[i].type = fdep[i].dcls /\ d.depend[i].args = fdep[i].dargs
                  /\ d.model = defining
                  /\ d.fieldname = name
                  /\ d.skip = wrapper[f].skip
                  /\ d.class = IF settings = "true" THEN "BaseCallbackDenorm"
                               ELSE "CallbackDenorm"]_vars

\* With bulk-unsafe triggers set, a field with two declarations and a skip
\* option is attached to B while a field without either is attached to A.
C18_Witness ==
    /\ settings = "true"
    /\ \E f \in DenormFields :
          /\ denorm[f].model = "B" /\ denorm[f].fieldname = "total"
          /\ Len(denorm[f].depend) = 2 /\ denorm[f].skip = "skip"
    /\ \E f \in DenormFields :
          /\ denorm[f].model = "A"
          /\ denorm[f].depend = <<>> /\ denorm[f].skip = NoneS

====
